---- MODULE Spec2Model ----
(***************************************************************************)
(* Model of db.Table (src/db/table.go): the expiration sweeper             *)
(* SweepNextBatch, the write-transaction wrapper Update with its telemetry *)
(* emission ddEmitStats, and the table lock taken by SweepNextBatch,      *)
(* Create, Open and Close.                                                 *)
(*                                                                         *)
(* Byte-string keys are modelled by positive integers: bytes.Compare on    *)
(* object keys and on the fixed-width big-endian timestamp keys is the     *)
(* integer order.  nil keys are modelled by 0.                             *)
(***************************************************************************)
EXTENDS Integers, Sequences, FiniteSets, TLC

\* ------------------------------------------------------------------ bounds

\* Batch size of the sweeper (1000 in the source), scaled down.
SweepBatchSize == 2

\* Event timestamp keys are 1..MaxTime; a bound key is 1..MaxTime+1.
MaxTime == 3

\* Object keys are 1..MaxObj.
MaxObj == 2

\* runtime.NumCPU(), the default shard count.
NumCPU == 2

\* Write transactions committed through one database handle, at most.
MaxWrites == 3

\* The threads that call into the table.
Threads == {1, 2}
ObjKeys == 1..MaxObj
Times == 1..MaxTime
Bounds == 1..(MaxTime + 1)
nil == 0

VARIABLES
    disk,          \* committed content of the bolt file
    tx,            \* working copy of the open write transaction
    rwlock,        \* thread holding bolt's writer lock, 0 when free
    dbStats,       \* what db.Stats() returns
    db,            \* t.db: "nil", "open" or "closed"
    shardCount,    \* t.shardCount
    currentShard,  \* t.currentShard
    currentObject, \* t.currentObject, nil or an object key
    boltStats,     \* t.boltStats, the cached previous snapshot
    mutex,         \* thread holding the table's sync.Mutex, 0 when free
    pc,            \* position of each thread
    swept,         \* named results of SweepNextBatch, per thread
    events,
    objects,
    bound,         \* local bound of the sweep closure, per thread
    err,           \* error returned by the Update in progress, per thread
    fresh,         \* local fresh of ddEmitStats, per thread
    ret,           \* what the last finished call of each thread returned
    stats,         \* local stats of ddEmitStats (the delta), per thread
    op,            \* the call each thread is in
    statsdOut,     \* metrics emitted by each thread during its current call
    boundSet,      \* bound keys the callers' clocks and horizons can produce
    ioFaults,      \* whether the storage device can fail a commit
    gaugeSet,      \* page statistics the database can report after a commit
    statsdTotal,   \* sum the statsd sink holds of counter bolt.txn.write.count
    statS,         \* receiver s of Stat.Diff
    statOther,     \* argument other of Stat.Diff
    statDiff,      \* <<what Stat.Diff returned>>, <<>> before the call
    eventBytes,    \* argument b of rawEvent.unmarshal
    rawEvent,      \* receiver e of rawEvent.unmarshal and how the call ended
    schema,        \* name, ID allocators and property indexes of the table
    metaData,      \* the document Table.marshal returned, <<>> before
    decoded        \* the table that unmarshals the document

vars == <<disk, tx, rwlock, dbStats, db, shardCount, currentShard, currentObject,
          boltStats, mutex, pc, swept, events, objects, bound, err, fresh, ret,
          stats, op, statsdOut, boundSet, ioFaults, gaugeSet, statsdTotal,
          statS, statOther, statDiff, eventBytes, rawEvent, schema, metaData,
          decoded>>

sweepLocals == <<swept, events, objects, bound>>
envVars == <<boundSet, ioFaults, gaugeSet>>
pureVars == <<statS, statOther, statDiff, eventBytes, rawEvent, schema, metaData,
              decoded>>

\* ------------------------------------------------------------ pure helpers

Min(S) == CHOOSE x \in S : \A y \in S : x <= y

\* The error values that occur.
NoError == "nil"
NoDeletes == "NoDeletes"
ErrDatabaseNotOpen == "database not open"

\* shardDBName(index): the bucket "shards/<index>" is disk.shards[index].
shardDBName(index) == index

\* bolt Cursor.First on a bucket with key set K.
CursorFirst(K) == IF K = {} THEN nil ELSE Min(K)

\* bolt Cursor.Seek: the first key >= seek, nil past the end.
CursorSeek(K, seek) ==
    IF {k \in K : k >= seek} = {} THEN nil ELSE Min({k \in K : k >= seek})

\* bolt Cursor.Next from a cursor standing on key at (nil: past the end).
CursorNext(K, at) ==
    IF at = nil \/ {k \in K : k > at} = {} THEN nil ELSE Min({k \in K : k > at})

\* Faulty variant: the positioning step seeks and does not advance.
NextObjectKeySeekOnly(K, cur) ==
    IF cur = nil THEN CursorFirst(K) ELSE CursorSeek(K, cur)

\* Lines 116-122: the object key the sweeper looks at next.
NextObjectKey(K, cur) ==
    IF cur = nil
    THEN CursorFirst(K)
    ELSE CursorNext(K, CursorSeek(K, cur))

\* Faulty variant: the comparison with the bound is not strict.
ExpiredLeq(eventKey, b) == eventKey <= b

\* Line 140: bytes.Compare(eventKey, bound) < 0.
Expired(eventKey, b) == eventKey < b

\* Lines 140-143: the events left in an object bucket after the loop that
\* walks the cursor from the first key and deletes while the key is expired.
RECURSIVE SweepEvents(_, _)
SweepEvents(evs, b) ==
    IF evs = {} THEN {}
    ELSE IF Expired(Min(evs), b) THEN SweepEvents(evs \ {Min(evs)}, b)
    ELSE evs

\* Line 140: eventKey when the loop ends: nil on exhaustion, else the first
\* key that is not expired.
LastEventKey(evs, b) ==
    IF SweepEvents(evs, b) = {} THEN nil ELSE Min(SweepEvents(evs, b))

\* Faulty variant: an object is removed whenever something was deleted from it.
ObjectEmptyIfTouched(evs, b) == SweepEvents(evs, b) # evs

\* Line 144: eventKey == nil.
ObjectEmpty(evs, b) == LastEventKey(evs, b) = nil

\* Faulty variant: the loop runs one iteration more.
LoopCondLeq(s, e) == s <= SweepBatchSize /\ e < SweepBatchSize

\* Line 115: the loop condition.
LoopCond(s, e) == s < SweepBatchSize /\ e < SweepBatchSize

\* Faulty variant: no wrap around.
NextShardNoWrap(cur, n) == cur + 1

\* Line 126: (t.currentShard + 1) % t.ShardCount().
NextShard(cur, n) == (cur + 1) % n

\* Faulty variant: every batch commits.
SweepResultAlwaysCommit(e, o) == NoError

\* Lines 152-161: the error the sweep closure returns.
SweepResult(e, o) == IF e = 0 /\ o = 0 THEN NoDeletes ELSE NoError

\* Faulty variant: Lock never waits.
LockFreeAlways(m) == TRUE

\* sync.Mutex.Lock proceeds only when the mutex is free.
LockFree(m) == m = 0

\* Faulty variant: the telemetry is emitted only after a successful transaction.
EmitsAfterOnlyOnSuccess(e) == e = NoError

\* Lines 376-380: ddEmitStats follows db.Update whatever it returned.
EmitsAfter(e) == TRUE

\* The events a content holds, as <<shard, object, event key>>.
EventsOf(c) ==
    UNION {UNION {{<<s, o, e>> : e \in c.shards[s][o]} : o \in DOMAIN c.shards[s]}
           : s \in DOMAIN c.shards}

\* The object sub-buckets a content holds, as <<shard, object>>.
ObjectsOf(c) ==
    UNION {{<<s, o>> : o \in DOMAIN c.shards[s]} : s \in DOMAIN c.shards}

\* ------------------------------------------------------------------ state

NoTx == [metaBucket |-> FALSE, meta |-> <<>>, shards |-> <<>>]
NoRet == [op |-> "none", swept |-> 0, events |-> 0, objects |-> 0, err |-> NoError]

\* bolt.Stats as db.Stats() returns it: the page statistics and the number of
\* open read transactions, which are levels, and TxStats.Write, which stands
\* for the counters of TxStats and only grows.
ZeroStats ==
    [FreePageN |-> 0, PendingPageN |-> 0, FreeAlloc |-> 0, FreelistInuse |-> 0,
     OpenTxN |-> 0, Write |-> 0]

\* bolt's Stats.Sub as line 454 uses it: the levels are those of the fresh
\* snapshot, the counters are the difference to the previous snapshot.
Sub(st, prev) == [st EXCEPT !.Write = st.Write - prev.Write]
ErrCommit == "commit failed"

Metric(name, value) == [name |-> name, value |-> value]

\* Whether a commit of the device succeeds: always, unless it can fail.
CommitOutcomes == IF ioFaults THEN {TRUE, FALSE} ELSE {TRUE}

\* bolt db.Update after the closure returned e, lines 376-378: commit when the
\* closure returned nil, roll back otherwise; a failed commit rolls back and
\* returns its error.
UpdateErr(e, ok) == IF e = NoError /\ ~ok THEN ErrCommit ELSE e

EndTx(t, c, e, ok) ==
    /\ err' = [err EXCEPT ![t] = UpdateErr(e, ok)]
    /\ IF UpdateErr(e, ok) = NoError
       THEN /\ disk' = c
            /\ \E g \in gaugeSet : dbStats' = [g EXCEPT !.Write = dbStats.Write + 1]
       ELSE UNCHANGED <<disk, dbStats>>
    /\ tx' = NoTx
    /\ rwlock' = 0
    /\ pc' = [pc EXCEPT ![t] = IF EmitsAfter(UpdateErr(e, ok)) THEN "emit" ELSE "return"]

\* ------------------------------------------------- SweepNextBatch, 104-164

\* Line 105: t.Lock().
SweepLock(t) ==
    /\ pc[t] = "idle"
    /\ LockFree(mutex)
    /\ mutex' = t
    /\ pc' = [pc EXCEPT ![t] = "sweep"]
    /\ op' = [op EXCEPT ![t] = "sweep"]
    /\ ret' = [ret EXCEPT ![t] = NoRet]
    /\ statsdOut' = [statsdOut EXCEPT ![t] = <<>>]
    /\ UNCHANGED <<disk, tx, rwlock, dbStats, db, shardCount, currentShard,
                   currentObject, boltStats, sweepLocals, err, fresh, stats,
                   envVars, statsdTotal, pureVars>>

\* Lines 110-114: db.Update begins the write transaction and the closure
\* computes the bound and opens the cursor on the current shard.
SweepBegin(t) ==
    /\ pc[t] = "sweep"
    /\ db = "open"
    /\ rwlock = 0
    /\ shardDBName(currentShard) \in DOMAIN disk.shards
    /\ rwlock' = t
    /\ tx' = disk
    /\ \E b \in boundSet : bound' = [bound EXCEPT ![t] = b]
    /\ pc' = [pc EXCEPT ![t] = "sweep_loop"]
    /\ UNCHANGED <<disk, dbStats, db, shardCount, currentShard, currentObject,
                   boltStats, mutex, swept, events, objects, err, fresh, ret,
                   stats, op, statsdOut,
                   envVars, statsdTotal, pureVars>>

\* Lines 115-132: an iteration that finds the shard exhausted.
SweepRollover(t) ==
    /\ pc[t] = "sweep_loop"
    /\ LoopCond(swept[t], events[t])
    /\ shardDBName(currentShard) \in DOMAIN tx.shards
    /\ NextObjectKey(DOMAIN tx.shards[shardDBName(currentShard)], currentObject) = nil
    /\ currentShard' = NextShard(currentShard, shardCount)
    /\ currentObject' = nil
    /\ statsdOut' = [statsdOut EXCEPT ![t] = Append(@, Metric("expiration.rollover", 1))]
    /\ swept' = [swept EXCEPT ![t] = @ + 1]
    /\ UNCHANGED <<disk, tx, rwlock, dbStats, db, shardCount, boltStats, mutex, pc,
                   events, objects, bound, err, fresh, ret, stats, op,
                   envVars, statsdTotal, pureVars>>

\* Lines 115-148: an iteration that visits an object.
SweepVisit(t) ==
    /\ pc[t] = "sweep_loop"
    /\ LoopCond(swept[t], events[t])
    /\ shardDBName(currentShard) \in DOMAIN tx.shards
    /\ LET sb == shardDBName(currentShard)
           objectKey == NextObjectKey(DOMAIN tx.shards[sb], currentObject)
       IN /\ objectKey # nil
          /\ currentObject' = objectKey
          /\ LET evs == tx.shards[sb][objectKey]
                 left == SweepEvents(evs, bound[t])
             IN /\ events' = [events EXCEPT ![t] = @ + Cardinality(evs \ left)]
                /\ IF ObjectEmpty(evs, bound[t])
                   THEN /\ tx' = [tx EXCEPT !.shards[sb] =
                                     [o \in DOMAIN @ \ {objectKey} |-> @[o]]]
                        /\ objects' = [objects EXCEPT ![t] = @ + 1]
                   ELSE /\ tx' = [tx EXCEPT !.shards[sb][objectKey] = left]
                        /\ UNCHANGED objects
    /\ swept' = [swept EXCEPT ![t] = @ + 1]
    /\ UNCHANGED <<disk, rwlock, dbStats, db, shardCount, currentShard, boltStats,
                   mutex, pc, bound, err, fresh, ret, stats, op, statsdOut,
                   envVars, statsdTotal, pureVars>>

\* Faulty variant: the two counts are emitted without the tests of lines 155 and 158.
SweepCountersUnguarded(e, o) ==
    <<Metric("expiration.sweep", 1)>>
    \o (IF SweepResult(e, o) = NoError
        THEN <<Metric("expiration.events", e), Metric("expiration.objects", o)>>
        ELSE <<>>)

\* Lines 149-161: the counters the closure emits before it returns.
SweepCounters(e, o) ==
    <<Metric("expiration.sweep", 1)>>
    \o (IF SweepResult(e, o) = NoError /\ e > 0
        THEN <<Metric("expiration.events", e)>> ELSE <<>>)
    \o (IF SweepResult(e, o) = NoError /\ o > 0
        THEN <<Metric("expiration.objects", o)>> ELSE <<>>)

\* Lines 149-162 and 376-378: the loop has ended, the closure returns and
\* db.Update commits or rolls back.
SweepFinish(t) ==
    /\ pc[t] = "sweep_loop"
    /\ ~LoopCond(swept[t], events[t])
    /\ statsdOut' = [statsdOut EXCEPT ![t] = @ \o SweepCounters(events[t], objects[t])]
    /\ \E ok \in CommitOutcomes : EndTx(t, tx, SweepResult(events[t], objects[t]), ok)
    /\ UNCHANGED <<db, shardCount, currentShard, currentObject, boltStats, mutex,
                   sweepLocals, fresh, ret, stats, op,
                   envVars, statsdTotal, pureVars>>

\* ------------------------------------------------- ddEmitStats, 452-479

\* Lines 453-454: fresh = t.db.Stats(); stats = fresh.Sub(t.boltStats).
EmitRead(t) ==
    /\ pc[t] = "emit"
    /\ fresh' = [fresh EXCEPT ![t] = dbStats]
    /\ stats' = [stats EXCEPT ![t] = Sub(dbStats, boltStats)]
    /\ pc' = [pc EXCEPT ![t] = "emit_store"]
    /\ UNCHANGED <<disk, tx, rwlock, dbStats, db, shardCount, currentShard,
                   currentObject, boltStats, mutex, sweepLocals, err, ret, op,
                   statsdOut,
                   envVars, statsdTotal, pureVars>>

\* Lines 457-478: the gauges and counters ddEmitStats sends, in the order of
\* the source; bolt.txn.write.count stands for the counters of TxStats.
StatsMetrics(st) ==
    <<Metric("bolt.pages.free", st.FreePageN),
      Metric("bolt.pages.pending", st.PendingPageN),
      Metric("bolt.pages.free.alloc", st.FreeAlloc),
      Metric("bolt.pages.freelist.inuse", st.FreeAlloc),
      Metric("bolt.txn.open", st.OpenTxN),
      Metric("bolt.txn.write.count", st.Write)>>

\* Lines 455-478: t.boltStats = &fresh, then the delta goes to statsd, which
\* adds a counter to the sum it holds.
EmitStore(t) ==
    /\ pc[t] = "emit_store"
    /\ boltStats' = fresh[t]
    /\ statsdOut' = [statsdOut EXCEPT ![t] = @ \o StatsMetrics(stats[t])]
    /\ statsdTotal' = statsdTotal + stats[t].Write
    /\ fresh' = [fresh EXCEPT ![t] = ZeroStats]
    /\ stats' = [stats EXCEPT ![t] = ZeroStats]
    /\ pc' = [pc EXCEPT ![t] = "return"]
    /\ UNCHANGED <<disk, tx, rwlock, dbStats, db, shardCount, currentShard,
                   currentObject, mutex, sweepLocals, err, ret, op,
                   envVars, pureVars>>

\* ------------------------------------ SweepNextBatch, the ways out, 104-164

\* Lines 163 and 106: SweepNextBatch drops the error of Update, returns its
\* three counts and the deferred Unlock runs.
SweepReturn(t) ==
    /\ pc[t] = "return"
    /\ op[t] = "sweep"
    /\ ret' = [ret EXCEPT ![t] = [op |-> "sweep", swept |-> swept[t],
                                  events |-> events[t], objects |-> objects[t],
                                  err |-> NoError]]
    /\ swept' = [swept EXCEPT ![t] = 0]
    /\ events' = [events EXCEPT ![t] = 0]
    /\ objects' = [objects EXCEPT ![t] = 0]
    /\ bound' = [bound EXCEPT ![t] = nil]
    /\ err' = [err EXCEPT ![t] = NoError]
    /\ op' = [op EXCEPT ![t] = "none"]
    /\ statsdOut' = [statsdOut EXCEPT ![t] = <<>>]
    /\ mutex' = 0
    /\ pc' = [pc EXCEPT ![t] = "idle"]
    /\ UNCHANGED <<disk, tx, rwlock, dbStats, db, shardCount, currentShard,
                   currentObject, boltStats, fresh, stats,
                   envVars, statsdTotal, pureVars>>

\* Faulty variant: the call on a table that is not open counts as a sweep.
SweepNotOpenCounted(t) ==
    /\ pc[t] = "sweep"
    /\ db = "nil"
    /\ ret' = [ret EXCEPT ![t] = [op |-> "sweep", swept |-> 0, events |-> 0,
                                  objects |-> 0, err |-> NoError]]
    /\ statsdOut' = [statsdOut EXCEPT ![t] = @ \o <<Metric("expiration.sweep", 1)>>]
    /\ op' = [op EXCEPT ![t] = "none"]
    /\ mutex' = 0
    /\ pc' = [pc EXCEPT ![t] = "idle"]
    /\ UNCHANGED <<disk, tx, rwlock, dbStats, db, shardCount, currentShard,
                   currentObject, boltStats, sweepLocals, err, fresh, stats,
                   envVars, statsdTotal, pureVars>>

\* Lines 107-109: the table was never opened, the call returns zeros.
SweepNotOpen(t) ==
    /\ pc[t] = "sweep"
    /\ db = "nil"
    /\ ret' = [ret EXCEPT ![t] = [op |-> "sweep", swept |-> 0, events |-> 0,
                                  objects |-> 0, err |-> NoError]]
    /\ op' = [op EXCEPT ![t] = "none"]
    /\ mutex' = 0
    /\ pc' = [pc EXCEPT ![t] = "idle"]
    /\ UNCHANGED <<disk, tx, rwlock, dbStats, db, shardCount, currentShard,
                   currentObject, boltStats, sweepLocals, err, fresh, stats,
                   statsdOut,
                   envVars, statsdTotal, pureVars>>

\* Lines 110 and 376-380: the handle is set and the database behind it is
\* closed; db.Update fails before it calls the closure.
SweepDbClosed(t) ==
    /\ pc[t] = "sweep"
    /\ db = "closed"
    /\ err' = [err EXCEPT ![t] = ErrDatabaseNotOpen]
    /\ pc' = [pc EXCEPT ![t] = IF EmitsAfter(ErrDatabaseNotOpen) THEN "emit" ELSE "return"]
    /\ UNCHANGED <<disk, tx, rwlock, dbStats, db, shardCount, currentShard,
                   currentObject, boltStats, mutex, sweepLocals, fresh, ret,
                   stats, op, statsdOut,
                   envVars, statsdTotal, pureVars>>

\* Lines 113-114 on a table without the bucket of the current shard:
\* tx.Bucket returns nil and sb.Cursor() dereferences it.  The panic unwinds
\* through db.Update, which rolls back, and through the deferred Unlock.
SweepPanic(t) ==
    /\ pc[t] = "sweep"
    /\ db = "open"
    /\ rwlock = 0
    /\ shardDBName(currentShard) \notin DOMAIN disk.shards
    /\ mutex' = 0
    /\ pc' = [u \in Threads |-> "crashed"]
    /\ UNCHANGED <<disk, tx, rwlock, dbStats, db, shardCount, currentShard,
                   currentObject, boltStats, sweepLocals, err, fresh, ret,
                   stats, op, statsdOut,
                   envVars, statsdTotal, pureVars>>

\* ------------------------------------------- Create, Open, Close, 236-365

NoFile == [metaBucket |-> FALSE, meta |-> <<>>, shards |-> <<>>]
ErrClosure == "closure error"

\* Lines 394-400: the meta document of the table.
marshal(n) == [shardCount |-> n]

\* Lines 403-411: the shard count a meta document restores.
unmarshal(doc) == doc.shardCount

\* Lines 295-300: t.shardCount after the closure of open has read the meta
\* value: the persisted count when there is one, else what the table held.
ShardCountAfterOpen(c, n) == IF Len(c.meta) > 0 THEN unmarshal(c.meta[1]) ELSE n

\* Lines 287-320: the content the closure of open leaves: the meta bucket and
\* the shard buckets 0..shardCount-1 exist, what existed is kept.
InitSchema(c, n) ==
    [metaBucket |-> TRUE,
     meta |-> c.meta,
     shards |-> [i \in DOMAIN c.shards \cup 0..(ShardCountAfterOpen(c, n) - 1) |->
                    IF i \in DOMAIN c.shards THEN c.shards[i] ELSE <<>>]]

\* tx.PutMeta of line 252: the meta document goes under key "meta" of
\* bucket "meta".
PutMeta(c, n) == [c EXCEPT !.meta = <<marshal(n)>>]

\* Lines 237 and 263: t.Lock() of Create and of Open.
OpenLock(t, o) ==
    /\ pc[t] = "idle"
    /\ LockFree(mutex)
    /\ dbStats.Write < MaxWrites
    /\ mutex' = t
    /\ pc' = [pc EXCEPT ![t] = o]
    /\ op' = [op EXCEPT ![t] = o]
    /\ ret' = [ret EXCEPT ![t] = NoRet]
    /\ statsdOut' = [statsdOut EXCEPT ![t] = <<>>]
    /\ UNCHANGED <<disk, tx, rwlock, dbStats, db, shardCount, currentShard,
                   currentObject, boltStats, sweepLocals, err, fresh, stats,
                   envVars, statsdTotal, pureVars>>

CreateLock(t) == OpenLock(t, "create")

OpenTableLock(t) == OpenLock(t, "open")

\* Lines 241-243: Create sets the default shard count.
DefaultShardCount(o, n) == IF o = "create" /\ n = 0 THEN NumCPU ELSE n

\* Lines 269-271: the handle is set, open returns nil at once.
OpenAlready(t) ==
    /\ pc[t] \in {"create", "open"}
    /\ db # "nil"
    /\ shardCount' = DefaultShardCount(op[t], shardCount)
    /\ err' = [err EXCEPT ![t] = NoError]
    /\ pc' = [pc EXCEPT ![t] = "return"]
    /\ UNCHANGED <<disk, tx, rwlock, dbStats, db, currentShard, currentObject,
                   boltStats, mutex, sweepLocals, fresh, ret, stats, op,
                   statsdOut,
                   envVars, statsdTotal, pureVars>>

\* Lines 273-320: bolt.Open, the first snapshot of the statistics, and the
\* transaction that initializes the schema.
OpenInit(t) ==
    /\ pc[t] \in {"create", "open"}
    /\ db = "nil"
    /\ rwlock = 0
    /\ db' = "open"
    /\ boltStats' = dbStats
    /\ shardCount' = ShardCountAfterOpen(disk, DefaultShardCount(op[t], shardCount))
    /\ \E ok \in CommitOutcomes :
          EndTx(t, InitSchema(disk, DefaultShardCount(op[t], shardCount)), NoError, ok)
    /\ UNCHANGED <<currentShard, currentObject, mutex, sweepLocals, fresh, ret,
                   stats, op, statsdOut,
                   envVars, statsdTotal, pureVars>>

\* Lines 274-277: bolt.Open fails, on a file it may not read or on a file
\* lock it does not get within the timeout; open returns the error and the
\* handle stays nil.
ErrOpen == "table open"

OpenFail(t) ==
    /\ pc[t] \in {"create", "open"}
    /\ db = "nil"
    /\ ioFaults
    /\ shardCount' = DefaultShardCount(op[t], shardCount)
    /\ err' = [err EXCEPT ![t] = ErrOpen]
    /\ pc' = [pc EXCEPT ![t] = "return"]
    /\ UNCHANGED <<disk, tx, rwlock, dbStats, db, currentShard, currentObject,
                   boltStats, mutex, sweepLocals, fresh, ret, stats, op,
                   statsdOut, envVars, statsdTotal, pureVars>>

\* Lines 246-253: open returned nil to Create, which saves the table state:
\* db.Update with the closure that calls tx.PutMeta.
CreatePutMeta(t) ==
    /\ pc[t] = "return"
    /\ op[t] = "create"
    /\ err[t] = NoError
    /\ op' = [op EXCEPT ![t] = "create_put"]
    /\ IF db = "closed"
       THEN /\ err' = [err EXCEPT ![t] = ErrDatabaseNotOpen]
            /\ pc' = [pc EXCEPT ![t] =
                         IF EmitsAfter(ErrDatabaseNotOpen) THEN "emit" ELSE "return"]
            /\ UNCHANGED <<disk, tx, rwlock, dbStats>>
       ELSE /\ rwlock = 0
            /\ \E ok \in CommitOutcomes :
                  EndTx(t, PutMeta(disk, shardCount), NoError, ok)
    /\ UNCHANGED <<db, shardCount, currentShard, currentObject, boltStats, mutex,
                   sweepLocals, fresh, ret, stats, statsdOut,
                   envVars, statsdTotal, pureVars>>

\* Lines 238, 247, 255, 258, 264-265 and 322-333: Create and Open return the
\* error they hold and the deferred Unlock runs.
OpenReturn(t) ==
    /\ pc[t] = "return"
    /\ \/ op[t] \in {"open", "create_put"}
       \/ op[t] = "create" /\ err[t] # NoError
    /\ ret' = [ret EXCEPT ![t] = [op |-> op[t], swept |-> 0, events |-> 0,
                                  objects |-> 0, err |-> err[t]]]
    /\ err' = [err EXCEPT ![t] = NoError]
    /\ op' = [op EXCEPT ![t] = "none"]
    /\ statsdOut' = [statsdOut EXCEPT ![t] = <<>>]
    /\ mutex' = 0
    /\ pc' = [pc EXCEPT ![t] = "idle"]
    /\ UNCHANGED <<disk, tx, rwlock, dbStats, db, shardCount, currentShard,
                   currentObject, boltStats, sweepLocals, fresh, stats,
                   envVars, statsdTotal, pureVars>>

\* Line 356: t.Lock() of Close.
CloseLock(t) ==
    /\ pc[t] = "idle"
    /\ LockFree(mutex)
    /\ mutex' = t
    /\ pc' = [pc EXCEPT ![t] = "close"]
    /\ op' = [op EXCEPT ![t] = "close"]
    /\ ret' = [ret EXCEPT ![t] = NoRet]
    /\ statsdOut' = [statsdOut EXCEPT ![t] = <<>>]
    /\ UNCHANGED <<disk, tx, rwlock, dbStats, db, shardCount, currentShard,
                   currentObject, boltStats, sweepLocals, err, fresh, stats,
                   envVars, statsdTotal, pureVars>>

\* Lines 361-365: the database is closed when there is a handle; the handle
\* stays set.
DbAfterClose(d) == IF d # "nil" THEN "closed" ELSE d

\* Lines 357-358: close, then the deferred Unlock.  bolt's Close waits for
\* the writer lock.
CloseTable(t) ==
    /\ pc[t] = "close"
    /\ rwlock = 0
    /\ db' = DbAfterClose(db)
    /\ ret' = [ret EXCEPT ![t] = [op |-> "close", swept |-> 0, events |-> 0,
                                  objects |-> 0, err |-> NoError]]
    /\ op' = [op EXCEPT ![t] = "none"]
    /\ mutex' = 0
    /\ pc' = [pc EXCEPT ![t] = "idle"]
    /\ UNCHANGED <<disk, tx, rwlock, dbStats, shardCount, currentShard,
                   currentObject, boltStats, sweepLocals, err, fresh, stats,
                   statsdOut,
                   envVars, statsdTotal, pureVars>>

\* The shard counts a caller can have set on a handle before Create or Open.
ShardCounts == 0..(NumCPU + 1)

\* Lines 39-44: the program lets go of its handle, which it never opened or
\* has closed, and makes a new one for the path with NewTable; the shard
\* count is what the caller sets before Create or Open.  The statistics of
\* the databases opened one after the other are kept as one running count.
NewTable(t) ==
    /\ pc[t] = "idle"
    /\ mutex = 0
    /\ db \in {"nil", "closed"}
    /\ dbStats.Write < MaxWrites
    /\ db' = "nil"
    /\ \E n \in ShardCounts : shardCount' = n
    /\ currentShard' = 0
    /\ currentObject' = nil
    /\ boltStats' = ZeroStats
    /\ ret' = [ret EXCEPT ![t] = NoRet]
    /\ UNCHANGED <<disk, tx, rwlock, dbStats, mutex, pc, sweepLocals, err, fresh,
                   stats, op, statsdOut, envVars, statsdTotal, pureVars>>

\* ------------------------------------------------------- Update, 374-381

\* The contents a caller's closure can leave from content c: c itself, or c
\* without one object sub-bucket.
Mutations(c) ==
    {c} \cup {[c EXCEPT !.shards[y[1]] = [o \in DOMAIN @ \ {y[2]} |-> @[o]]]
               : y \in ObjectsOf(c)}

\* Lines 375-376: a caller's Update on the open table; db.Update takes the
\* writer lock and begins the transaction.
UpdateBegin(t) ==
    /\ pc[t] = "idle"
    /\ db = "open"
    /\ rwlock = 0
    /\ dbStats.Write < MaxWrites
    /\ rwlock' = t
    /\ tx' = disk
    /\ pc' = [pc EXCEPT ![t] = "update_fn"]
    /\ op' = [op EXCEPT ![t] = "update"]
    /\ ret' = [ret EXCEPT ![t] = NoRet]
    /\ statsdOut' = [statsdOut EXCEPT ![t] = <<>>]
    /\ UNCHANGED <<disk, dbStats, db, shardCount, currentShard, currentObject,
                   boltStats, mutex, sweepLocals, err, fresh, stats,
                   envVars, statsdTotal, pureVars>>

\* Line 377: the closure runs in the transaction and returns nil or an error.
UpdateFn(t) ==
    /\ pc[t] = "update_fn"
    /\ \E c \in Mutations(tx) : tx' = c
    /\ \E e \in {NoError, ErrClosure} : err' = [err EXCEPT ![t] = e]
    /\ pc' = [pc EXCEPT ![t] = "update_end"]
    /\ UNCHANGED <<disk, rwlock, dbStats, db, shardCount, currentShard,
                   currentObject, boltStats, mutex, sweepLocals, fresh, ret,
                   stats, op, statsdOut,
                   envVars, statsdTotal, pureVars>>

\* Lines 376-378: db.Update commits or rolls back.
UpdateEnd(t) ==
    /\ pc[t] = "update_end"
    /\ \E ok \in CommitOutcomes : EndTx(t, tx, err[t], ok)
    /\ UNCHANGED <<db, shardCount, currentShard, currentObject, boltStats, mutex,
                   sweepLocals, fresh, ret, stats, op, statsdOut,
                   envVars, statsdTotal, pureVars>>

\* Line 380: Update returns the error of db.Update.
UpdateReturn(t) ==
    /\ pc[t] = "return"
    /\ op[t] = "update"
    /\ ret' = [ret EXCEPT ![t] = [op |-> "update", swept |-> 0, events |-> 0,
                                  objects |-> 0, err |-> err[t]]]
    /\ err' = [err EXCEPT ![t] = NoError]
    /\ op' = [op EXCEPT ![t] = "none"]
    /\ statsdOut' = [statsdOut EXCEPT ![t] = <<>>]
    /\ pc' = [pc EXCEPT ![t] = "idle"]
    /\ UNCHANGED <<disk, tx, rwlock, dbStats, db, shardCount, currentShard,
                   currentObject, boltStats, mutex, sweepLocals, fresh, stats,
                   envVars, statsdTotal, pureVars>>

\* ------------------------------------------------------ Stat.Diff, 638-664

\* Width of the counters and durations, int and time.Duration: two's
\* complement integers of IntBits bits (64 in the source), scaled down.
IntBits == 3

MinInt == -(2 ^ (IntBits - 1))
MaxInt == 2 ^ (IntBits - 1) - 1

\* The value a Go integer holds after an operation whose exact result is x.
WrapInt(x) == ((x - MinInt) % (2 ^ IntBits)) + MinInt

\* Lines 583-636: the counters and durations of a Stat.
StatFields ==
    {"FetchCount", "FetchDuration", "InsertCount", "InsertDuration",
     "DeleteCount", "DeleteDuration", "FactorizeCacheHitCount",
     "FactorizeFetchHitCount", "FactorizeFetchHitDuration",
     "FactorizeFetchMissCount", "FactorizeFetchMissDuration",
     "FactorizeCreateCount", "FactorizeCreateDuration",
     "DefactorizeCacheHitCount", "DefactorizeFetchHitCount",
     "DefactorizeFetchHitDuration", "DefactorizeFetchMissCount",
     "DefactorizeFetchMissDuration", "MarshalCount", "MarshalDuration",
     "UnmarshalCount", "UnmarshalDuration"}

\* Line 640: &Stat{}.
ZeroStat == [f \in StatFields |-> 0]

\* Faulty variant: the last line subtracts the field of the line before it.
DiffPasteSlip(sv, ov) ==
    [f \in StatFields |->
        IF f = "UnmarshalDuration"
        THEN WrapInt(sv.UnmarshalDuration - ov.MarshalDuration)
        ELSE WrapInt(sv[f] - ov[f])]

\* Lines 639-664: the Stat that Diff returns.
Diff(sv, ov) ==
    [FetchCount |-> WrapInt(sv.FetchCount - ov.FetchCount),
     FetchDuration |-> WrapInt(sv.FetchDuration - ov.FetchDuration),
     InsertCount |-> WrapInt(sv.InsertCount - ov.InsertCount),
     InsertDuration |-> WrapInt(sv.InsertDuration - ov.InsertDuration),
     DeleteCount |-> WrapInt(sv.DeleteCount - ov.DeleteCount),
     DeleteDuration |-> WrapInt(sv.DeleteDuration - ov.DeleteDuration),
     FactorizeCacheHitCount |->
         WrapInt(sv.FactorizeCacheHitCount - ov.FactorizeCacheHitCount),
     FactorizeFetchHitCount |->
         WrapInt(sv.FactorizeFetchHitCount - ov.FactorizeFetchHitCount),
     FactorizeFetchHitDuration |->
         WrapInt(sv.FactorizeFetchHitDuration - ov.FactorizeFetchHitDuration),
     FactorizeFetchMissCount |->
         WrapInt(sv.FactorizeFetchMissCount - ov.FactorizeFetchMissCount),
     FactorizeFetchMissDuration |->
         WrapInt(sv.FactorizeFetchMissDuration - ov.FactorizeFetchMissDuration),
     FactorizeCreateCount |->
         WrapInt(sv.FactorizeCreateCount - ov.FactorizeCreateCount),
     FactorizeCreateDuration |->
         WrapInt(sv.FactorizeCreateDuration - ov.FactorizeCreateDuration),
     DefactorizeCacheHitCount |->
         WrapInt(sv.DefactorizeCacheHitCount - ov.DefactorizeCacheHitCount),
     DefactorizeFetchHitCount |->
         WrapInt(sv.DefactorizeFetchHitCount - ov.DefactorizeFetchHitCount),
     DefactorizeFetchHitDuration |->
         WrapInt(sv.DefactorizeFetchHitDuration - ov.DefactorizeFetchHitDuration),
     DefactorizeFetchMissCount |->
         WrapInt(sv.DefactorizeFetchMissCount - ov.DefactorizeFetchMissCount),
     DefactorizeFetchMissDuration |->
         WrapInt(sv.DefactorizeFetchMissDuration - ov.DefactorizeFetchMissDuration),
     MarshalCount |-> WrapInt(sv.MarshalCount - ov.MarshalCount),
     MarshalDuration |-> WrapInt(sv.MarshalDuration - ov.MarshalDuration),
     UnmarshalCount |-> WrapInt(sv.UnmarshalCount - ov.UnmarshalCount),
     UnmarshalDuration |-> WrapInt(sv.UnmarshalDuration - ov.UnmarshalDuration)]

\* Lines 639-664: a call s.Diff(other); the result is a new Stat, the receiver
\* and the argument are only read.
StatDiff ==
    /\ statDiff = <<>>
    /\ statDiff' = <<Diff(statS, statOther)>>
    /\ UNCHANGED <<disk, tx, rwlock, dbStats, db, shardCount, currentShard,
                   currentObject, boltStats, mutex, pc, sweepLocals, err, fresh,
                   ret, stats, op, statsdOut, envVars, statsdTotal, statS,
                   statOther, eventBytes, rawEvent, schema, metaData, decoded>>

\* ------------------------------------------- rawEvent.unmarshal, 535-550

\* Bytes of the timestamp prefix: an int64, line 517.
TimestampSize == 8

\* Bytes that follow the timestamp prefix in an input, at most.
MaxPayload == 2

\* The byte values of the inputs: 0x00, which msgpack reads as the integer 0,
\* and 0x80, which msgpack reads as the header of a map with no entries.
ByteValues == {0, 128}

\* The byte slices of length 0 .. TimestampSize + MaxPayload.
EventInputs == UNION {[1..n -> ByteValues] : n \in 0..(TimestampSize + MaxPayload)}

\* A rawEvent before unmarshal is called on it.
NoEvent == [timestamp |-> <<>>, data |-> <<>>, outcome |-> "none"]

\* Line 538: binary.Read takes TimestampSize bytes from the buffer and fails
\* when the buffer holds fewer.
ReadTimestampFails(bytes) == Len(bytes) < TimestampSize

\* Line 544: the msgpack decoder reads one value from what follows the prefix
\* into a map.  It fails on an empty rest and on a value that is not a map; a
\* map header with no entries gives the empty map, and what follows the value
\* is not read.
DecodeFails(rest) == Len(rest) = 0 \/ rest[1] # 128

\* Lines 536-550: how a call e.unmarshal(b) ends and what it leaves in e.  The
\* timestamp is held as its big-endian bytes.  A failed read of the prefix
\* trips the assertion of line 539; a failed decode returns the error.
RawEventUnmarshal(bytes) ==
    IF ReadTimestampFails(bytes)
    THEN [timestamp |-> <<>>, data |-> <<>>, outcome |-> "assert"]
    ELSE IF DecodeFails(SubSeq(bytes, TimestampSize + 1, Len(bytes)))
         THEN [timestamp |-> SubSeq(bytes, 1, TimestampSize), data |-> <<>>,
               outcome |-> "error"]
         ELSE [timestamp |-> SubSeq(bytes, 1, TimestampSize), data |-> <<>>,
               outcome |-> "nil"]

\* A call e.unmarshal(b).
EventUnmarshal ==
    /\ rawEvent.outcome = "none"
    /\ rawEvent' = RawEventUnmarshal(eventBytes)
    /\ UNCHANGED <<disk, tx, rwlock, dbStats, db, shardCount, currentShard,
                   currentObject, boltStats, mutex, pc, sweepLocals, err, fresh,
                   ret, stats, op, statsdOut, envVars, statsdTotal, statS,
                   statOther, statDiff, eventBytes, schema, metaData, decoded>>

\* ------------------------------- Table.marshal, Table.unmarshal, 393-422

\* Property names and property IDs of the schemas.
PropNames == {"a", "b"}
PropIDs == {-1, 1, 2}

\* A Property: its exported fields and the back-reference table, which names
\* the Table the property belongs to.  q gives the exported fields.
Property(q, owner) ==
    [ID |-> q.ID, Name |-> q.Name, DataType |-> q.DataType,
     Transient |-> q.Transient, table |-> owner]

\* The exported fields of the properties of the schemas: the property named
\* a is a factor, the property named b a string; a property is transient
\* when its ID is negative.
PropertyValues ==
    {[ID |-> i, Name |-> k, DataType |-> IF k = "a" THEN "factor" ELSE "string",
      Transient |-> i < 0] : i \in PropIDs, k \in PropNames}

\* The schema fields of a Table as NewTable leaves them, lines 39-44.
BlankTable ==
    [name |-> "", shardCount |-> 0, maxPermanentID |-> 0, maxTransientID |-> 0,
     properties |-> <<>>, propertiesByID |-> <<>>]

\* The table a set of properties ps belongs to: both indexes hold every
\* property, under its name and under its ID.
SchemaOf(nm, n, maxP, maxT, ps, owner) ==
    [name |-> nm, shardCount |-> n, maxPermanentID |-> maxP, maxTransientID |-> maxT,
     properties |->
         [k \in {q.Name : q \in ps} |->
             Property(CHOOSE q \in ps : q.Name = k, owner)],
     propertiesByID |->
         [i \in {q.ID : q \in ps} |->
             Property(CHOOSE q \in ps : q.ID = i, owner)]]

\* The property sets of the schemas: names unique and IDs unique.
PropertySets ==
    {ps \in SUBSET PropertyValues :
        /\ \A q1, q2 \in ps : q1.Name = q2.Name => q1 = q2
        /\ \A q1, q2 \in ps : q1.ID = q2.ID => q1 = q2}

\* The orders in which a range over a map with key set K can yield the keys.
RECURSIVE MapOrders(_)
MapOrders(K) ==
    IF K = {} THEN {<<>>}
    ELSE UNION {{<<k>> \o rest : rest \in MapOrders(K \ {k})} : k \in K}

\* json.Marshal of a *Property: the exported fields; the table field is not
\* encoded.
PropertyJSON(q) ==
    [id |-> q.ID, name |-> q.Name, dataType |-> q.DataType,
     transient |-> q.Transient]

\* json.Unmarshal of such a document into a new Property: the exported
\* fields; the table field is nil.
PropertyFromJSON(item) ==
    [ID |-> item.id, Name |-> item.name, DataType |-> item.dataType,
     Transient |-> item.transient]

\* Lines 394-400: the document marshal returns when the range over
\* t.properties yields the keys in the given order.  msg.Properties stays nil
\* without properties, which json.Marshal writes as null: null is TRUE then.
TableMarshal(tb, order) ==
    [name |-> tb.name, shardCount |-> tb.shardCount,
     maxPermanentID |-> tb.maxPermanentID, maxTransientID |-> tb.maxTransientID,
     properties |-> [null |-> Len(order) = 0,
                     items |-> [i \in 1..Len(order) |->
                                   PropertyJSON(tb.properties[order[i]])]]]

\* Lines 415-419: the indexes after the loop has put the first n properties
\* of the message, each with its back-reference set to the decoding table.
RECURSIVE IndexByName(_, _, _)
IndexByName(items, n, owner) ==
    IF n = 0 THEN <<>>
    ELSE LET before == IndexByName(items, n - 1, owner)
             q == Property(PropertyFromJSON(items[n]), owner)
         IN [k \in DOMAIN before \cup {q.Name} |->
                IF k = q.Name THEN q ELSE before[k]]

RECURSIVE IndexByID(_, _, _)
IndexByID(items, n, owner) ==
    IF n = 0 THEN <<>>
    ELSE LET before == IndexByID(items, n - 1, owner)
             q == Property(PropertyFromJSON(items[n]), owner)
         IN [i \in DOMAIN before \cup {q.ID} |->
                IF i = q.ID THEN q ELSE before[i]]

\* Faulty variant: maxTransientID is set from the field of the line above.
TableUnmarshalPasteSlip(tb, doc, owner) ==
    [name |-> doc.name, shardCount |-> doc.shardCount,
     maxPermanentID |-> doc.maxPermanentID, maxTransientID |-> doc.maxPermanentID,
     properties |-> IndexByName(doc.properties.items, Len(doc.properties.items), owner),
     propertiesByID |-> IndexByID(doc.properties.items, Len(doc.properties.items), owner)]

\* Lines 403-422: the schema fields of table tb after tb.unmarshal(doc) of a
\* well-formed document; owner names tb.
TableUnmarshal(tb, doc, owner) ==
    [name |-> doc.name, shardCount |-> doc.shardCount,
     maxPermanentID |-> doc.maxPermanentID, maxTransientID |-> doc.maxTransientID,
     properties |-> IndexByName(doc.properties.items, Len(doc.properties.items), owner),
     propertiesByID |-> IndexByID(doc.properties.items, Len(doc.properties.items), owner)]

\* A call schema.marshal(): the range over the map takes one of its orders.
MarshalCall ==
    /\ metaData = <<>>
    /\ \E order \in MapOrders(DOMAIN schema.properties) :
          metaData' = <<TableMarshal(schema, order)>>
    /\ UNCHANGED <<disk, tx, rwlock, dbStats, db, shardCount, currentShard,
                   currentObject, boltStats, mutex, pc, sweepLocals, err, fresh,
                   ret, stats, op, statsdOut, envVars, statsdTotal, statS,
                   statOther, statDiff, eventBytes, rawEvent, schema, decoded>>

\* A call decoded.unmarshal(data) with the document schema.marshal() returned.
UnmarshalCall ==
    /\ metaData # <<>>
    /\ ~decoded.done
    /\ decoded' = [done |-> TRUE,
                   table |-> TableUnmarshal(decoded.table, metaData[1], "decoder")]
    /\ UNCHANGED <<disk, tx, rwlock, dbStats, db, shardCount, currentShard,
                   currentObject, boltStats, mutex, pc, sweepLocals, err, fresh,
                   ret, stats, op, statsdOut, envVars, statsdTotal, statS,
                   statOther, statDiff, eventBytes, rawEvent, schema, metaData>>

\* ------------------------------------------------------- specifications

\* hash.Local(id), a fixed function of the object identifier.
HashLocal(id) == (id - 1) \div 2

\* Lines 440-442: the shard of an object.
shardIndex(id, n) == HashLocal(id) % n

\* The table file with n shards that holds the objects of evs, a function
\* from object keys to sets of event keys: every object sub-bucket lies in
\* the shard bucket its identifier hashes to.
TableFile(n, evs) ==
    [metaBucket |-> TRUE,
     meta |-> <<[shardCount |-> n]>>,
     shards |-> [s \in 0..(n - 1) |->
                    [o \in {k \in DOMAIN evs : shardIndex(k, n) = s} |-> evs[o]]]]

\* The event keys of one object: none, or a run of consecutive keys.  What
\* the sweeper does with an object depends on how many of its keys lie below
\* the bound and on whether one lies at or above it, and the runs give every
\* such combination.
EventSets == {{}} \cup {i..j : i, j \in Times}

\* The contents a table file with n shards can hold.
TableFiles(n) ==
    {TableFile(n, evs) : evs \in UNION {[K -> EventSets] : K \in SUBSET ObjKeys}}

InitLocals ==
    /\ tx = NoTx
    /\ rwlock = 0
    /\ mutex = 0
    /\ pc = [t \in Threads |-> "idle"]
    /\ op = [t \in Threads |-> "none"]
    /\ swept = [t \in Threads |-> 0]
    /\ events = [t \in Threads |-> 0]
    /\ objects = [t \in Threads |-> 0]
    /\ bound = [t \in Threads |-> nil]
    /\ err = [t \in Threads |-> NoError]
    /\ fresh = [t \in Threads |-> ZeroStats]
    /\ stats = [t \in Threads |-> ZeroStats]
    /\ ret = [t \in Threads |-> NoRet]
    /\ statsdOut = [t \in Threads |-> <<>>]
    /\ statsdTotal = 0

\* No call of Stat.Diff, rawEvent.unmarshal, Table.marshal or Table.unmarshal
\* has been made or is made.
PureIdle ==
    /\ statS = ZeroStat
    /\ statOther = ZeroStat
    /\ statDiff = <<>>
    /\ eventBytes = <<>>
    /\ rawEvent = NoEvent
    /\ schema = BlankTable
    /\ metaData = <<>>
    /\ decoded = [done |-> FALSE, table |-> BlankTable]

\* A table that was created with NumCPU shards, filled and is open.
InitSweep ==
    /\ InitLocals
    /\ disk \in TableFiles(NumCPU)
    /\ dbStats = ZeroStats
    /\ boltStats = ZeroStats
    /\ db = "open"
    /\ shardCount = NumCPU
    /\ currentShard = 0
    /\ currentObject = nil
    /\ boundSet = Bounds
    /\ ioFaults = FALSE
    /\ gaugeSet = {ZeroStats}
    /\ PureIdle

SweepStep(t) ==
    \/ SweepLock(t)
    \/ SweepBegin(t)
    \/ SweepRollover(t)
    \/ SweepVisit(t)
    \/ SweepFinish(t)
    \/ EmitRead(t)
    \/ EmitStore(t)
    \/ SweepReturn(t)

NextSweep == SweepStep(1)

SpecSweep == InitSweep /\ [][NextSweep]_vars

\* The same table swept by callers whose clock and horizon give one and the
\* same bound; every call that can take a step eventually takes it, and the
\* caller keeps invoking SweepNextBatch.
InitSweepFixed ==
    /\ InitLocals
    /\ disk \in TableFiles(NumCPU)
    /\ dbStats = ZeroStats
    /\ boltStats = ZeroStats
    /\ db = "open"
    /\ shardCount = NumCPU
    /\ currentShard = 0
    /\ currentObject = nil
    /\ boundSet \in {{b} : b \in Bounds}
    /\ ioFaults = FALSE
    /\ gaugeSet = {ZeroStats}
    /\ PureIdle

SpecSweepLive == InitSweepFixed /\ [][NextSweep]_vars /\ WF_vars(NextSweep)

\* The open table on a device whose commits can fail, swept with a bound that
\* expires the first event of an object, or all of them.
InitSweepFaulty ==
    /\ InitLocals
    /\ disk \in TableFiles(NumCPU)
    /\ dbStats = ZeroStats
    /\ boltStats = ZeroStats
    /\ db = "open"
    /\ shardCount = NumCPU
    /\ currentShard = 0
    /\ currentObject = nil
    /\ boundSet = {2, MaxTime + 1}
    /\ ioFaults = TRUE
    /\ gaugeSet = {ZeroStats}
    /\ PureIdle

SpecSweepFaulty == InitSweepFaulty /\ [][NextSweep]_vars

\* The files a fresh handle can find at its path: none, or a table created
\* with NumCPU shards whose objects each hold an event at every time.
FilesAtPath ==
    {NoFile} \cup {TableFile(NumCPU, [o \in K |-> Times]) : K \in SUBSET ObjKeys}

\* A handle as NewTable returns it, lines 39-44.  The sweeps that follow use
\* a bound that expires the first event of an object, or all of them.
InitTable ==
    /\ InitLocals
    /\ disk \in FilesAtPath
    /\ dbStats = ZeroStats
    /\ boltStats = ZeroStats
    /\ db = "nil"
    /\ shardCount = 0
    /\ currentShard = 0
    /\ currentObject = nil
    /\ boundSet = {2, MaxTime + 1}
    /\ ioFaults = FALSE
    /\ gaugeSet = {ZeroStats}
    /\ PureIdle

TableStep(t) ==
    \/ SweepStep(t)
    \/ SweepNotOpen(t)
    \/ SweepDbClosed(t)
    \/ SweepPanic(t)
    \/ CreateLock(t)
    \/ OpenTableLock(t)
    \/ OpenAlready(t)
    \/ OpenInit(t)
    \/ CreatePutMeta(t)
    \/ OpenReturn(t)
    \/ CloseLock(t)
    \/ CloseTable(t)

NextTable == \E t \in Threads : TableStep(t)

\* Threads that call SweepNextBatch, Create, Open and Close on one handle.
SpecTable == InitTable /\ [][NextTable]_vars

\* A handle as NewTable returns it with the shard count the caller has set.
InitLife ==
    /\ InitLocals
    /\ disk \in FilesAtPath
    /\ dbStats = ZeroStats
    /\ boltStats = ZeroStats
    /\ db = "nil"
    /\ shardCount \in ShardCounts
    /\ currentShard = 0
    /\ currentObject = nil
    /\ boundSet = {MaxTime + 1}
    /\ ioFaults = FALSE
    /\ gaugeSet = {ZeroStats}
    /\ PureIdle

LifeStep(t) ==
    \/ CreateLock(t)
    \/ OpenTableLock(t)
    \/ OpenAlready(t)
    \/ OpenInit(t)
    \/ CreatePutMeta(t)
    \/ EmitRead(t)
    \/ EmitStore(t)
    \/ OpenReturn(t)
    \/ CloseLock(t)
    \/ CloseTable(t)
    \/ NewTable(t)

NextLife == LifeStep(1)

\* One thread that creates, opens and closes the table, and makes new
\* handles for its path.
SpecLife == InitLife /\ [][NextLife]_vars

\* The same on a device that can fail a commit and the opening of the file.
InitLifeFaulty ==
    /\ InitLocals
    /\ disk \in FilesAtPath
    /\ dbStats = ZeroStats
    /\ boltStats = ZeroStats
    /\ db = "nil"
    /\ shardCount \in ShardCounts
    /\ currentShard = 0
    /\ currentObject = nil
    /\ boundSet = {MaxTime + 1}
    /\ ioFaults = TRUE
    /\ gaugeSet = {ZeroStats}
    /\ PureIdle

NextLifeFaulty == LifeStep(1) \/ OpenFail(1)

SpecLifeFaulty == InitLifeFaulty /\ [][NextLifeFaulty]_vars

\* An open table holding every object with an event at every time, on a
\* device whose commits can fail.
InitUpdate ==
    /\ InitLocals
    /\ disk = TableFile(NumCPU, [o \in ObjKeys |-> Times])
    /\ dbStats = ZeroStats
    /\ boltStats = ZeroStats
    /\ db = "open"
    /\ shardCount = NumCPU
    /\ currentShard = 0
    /\ currentObject = nil
    /\ boundSet = Bounds
    /\ ioFaults = TRUE
    /\ gaugeSet = {ZeroStats}
    /\ PureIdle

UpdateStep(t) ==
    \/ UpdateBegin(t)
    \/ UpdateFn(t)
    \/ UpdateEnd(t)
    \/ EmitRead(t)
    \/ EmitStore(t)
    \/ UpdateReturn(t)

NextUpdate == \E t \in Threads : UpdateStep(t)

\* Threads that call Update on the open table, outside the table lock.
SpecUpdate == InitUpdate /\ [][NextUpdate]_vars

\* A handle as NewTable returns it, on a path without a file.
InitAtRest ==
    /\ InitLocals
    /\ disk = NoFile
    /\ dbStats = ZeroStats
    /\ boltStats = ZeroStats
    /\ db = "nil"
    /\ shardCount = 0
    /\ currentShard = 0
    /\ currentObject = nil
    /\ boundSet = Bounds
    /\ ioFaults = FALSE
    /\ gaugeSet = {ZeroStats}

\* The values of the fields of the Stats: the ends of the range and the
\* values around zero.
StatValues == {MinInt, -1, 0, 1, MaxInt}

\* The Stats of the calls: every field holds one value but one field, which
\* holds another.
StatInputs ==
    {[f \in StatFields |-> IF f = g THEN a ELSE c] :
        g \in StatFields, a \in StatValues, c \in {0, MaxInt}}

\* Calls s.Diff(other) on these Stats, s and other the same included.
InitDiff ==
    /\ InitAtRest
    /\ statS \in StatInputs
    /\ statOther \in StatInputs
    /\ statDiff = <<>>
    /\ eventBytes = <<>>
    /\ rawEvent = NoEvent
    /\ schema = BlankTable
    /\ metaData = <<>>
    /\ decoded = [done |-> FALSE, table |-> BlankTable]

NextDiff == StatDiff

SpecDiff == InitDiff /\ [][NextDiff]_vars

\* Calls e.unmarshal(b) on the byte slices of EventInputs.
InitEvent ==
    /\ InitAtRest
    /\ statS = ZeroStat
    /\ statOther = ZeroStat
    /\ statDiff = <<>>
    /\ eventBytes \in EventInputs
    /\ rawEvent = NoEvent
    /\ schema = BlankTable
    /\ metaData = <<>>
    /\ decoded = [done |-> FALSE, table |-> BlankTable]

NextEvent == EventUnmarshal

SpecEvent == InitEvent /\ [][NextEvent]_vars

\* The schemas: a table with a property set, and the table that decodes,
\* which is blank or holds a schema of its own.
Schemas ==
    {SchemaOf(nm, n, maxP, maxT, ps, "encoder") :
        nm \in {"t"}, n \in 1..NumCPU, maxP \in {2, 3}, maxT \in {1, 2},
        ps \in PropertySets}

InitMeta ==
    /\ InitAtRest
    /\ statS = ZeroStat
    /\ statOther = ZeroStat
    /\ statDiff = <<>>
    /\ eventBytes = <<>>
    /\ rawEvent = NoEvent
    /\ schema \in Schemas
    /\ metaData = <<>>
    /\ decoded \in {[done |-> FALSE, table |-> tb] :
                      tb \in {BlankTable,
                               SchemaOf("u", 1, 1, 3,
                                        {q \in PropertyValues :
                                            q.ID = 1 /\ q.Name = "b"},
                                        "decoder")}}

NextMeta == MarshalCall \/ UnmarshalCall

SpecMeta == InitMeta /\ [][NextMeta]_vars

\* The page statistics and open read transactions a database can report.
GaugeReports ==
    {[FreePageN |-> a, PendingPageN |-> b, FreeAlloc |-> c, FreelistInuse |-> d,
      OpenTxN |-> e, Write |-> 0] : a, b, c, d, e \in 0..1}

\* An open table without objects whose page statistics change with the
\* commits.
InitGauges ==
    /\ InitLocals
    /\ disk = TableFile(NumCPU, <<>>)
    /\ dbStats \in GaugeReports
    /\ boltStats = dbStats
    /\ db = "open"
    /\ shardCount = NumCPU
    /\ currentShard = 0
    /\ currentObject = nil
    /\ boundSet = Bounds
    /\ ioFaults = FALSE
    /\ gaugeSet = GaugeReports
    /\ PureIdle

NextGauges == UpdateStep(1)

\* One thread that calls Update on that table.
SpecGauges == InitGauges /\ [][NextGauges]_vars

\* ------------------------------------------------------------------ claims

\* A step of thread t inside the loop of the sweep closure.
InLoopStep(t) == pc[t] = "sweep_loop" /\ pc'[t] = "sweep_loop"

\* The step of thread t that ends its sweep transaction.
EndOfBatchStep(t) == pc[t] = "sweep_loop" /\ pc'[t] # "sweep_loop"

\* C1: a sweep batch removes only events whose key is strictly below the
\* bound of the batch, from the transaction and from the committed file; so
\* no event with key >= bound disappears, alone or with its object bucket.
C1_OnlyExpiredRemoved ==
    [][\A t \in Threads :
          /\ InLoopStep(t) =>
                \A x \in EventsOf(tx) \ EventsOf(tx') : x[3] < bound[t]
          /\ EndOfBatchStep(t) =>
                \A x \in EventsOf(disk) \ EventsOf(disk') : x[3] < bound[t]]_vars

\* C1 witness: a batch has deleted an expired event of the object it stands
\* on and left an event of that object that is not expired.
C1_Witness ==
    \E t \in Threads :
        /\ pc[t] = "sweep_loop"
        /\ events[t] > 0
        /\ currentObject \in DOMAIN tx.shards[currentShard]
        /\ \E e \in tx.shards[currentShard][currentObject] : e >= bound[t]

\* C2: a batch that deleted nothing rolls back: the file and the storage
\* statistics are what they were and Update returns the sentinel; a batch
\* that deleted something commits all of its deletions at once.  The caller
\* of SweepNextBatch never gets the sentinel.
C2_AbortOrCommit ==
    [][\A t \in Threads :
          /\ EndOfBatchStep(t) =>
                IF events[t] = 0 /\ objects[t] = 0
                THEN disk' = disk /\ dbStats' = dbStats /\ err'[t] = NoDeletes
                ELSE /\ disk' = tx
                     /\ dbStats'.Write = dbStats.Write + 1
                     /\ err'[t] = NoError
          /\ ret'[t].err # NoDeletes]_vars

\* C2 witness: a batch that visited objects and deleted nothing was rolled
\* back.
C2_Witness ==
    \E t \in Threads :
        /\ pc[t] = "emit"
        /\ op[t] = "sweep"
        /\ err[t] = NoDeletes
        /\ currentObject # nil
        /\ EventsOf(disk) # {}

\* C3 (as claimed): a batch returns at most SweepBatchSize deleted events
\* and a positive swept count.
C3_AtMostBatchSizeEvents ==
    \A t \in Threads :
        ret[t].op = "sweep" => ret[t].events <= SweepBatchSize /\ ret[t].swept > 0

\* C4 (as claimed): from a non-nil currentObject the sweeper goes to the
\* smallest object key of the shard above currentObject, and rolls over only
\* when there is none.
C4_NextIsSuccessor ==
    [][\A t \in Threads :
          (InLoopStep(t) /\ swept'[t] = swept[t] + 1 /\ currentObject # nil) =>
              LET above == {k \in DOMAIN tx.shards[currentShard] : k > currentObject}
              IN IF above = {}
                 THEN currentObject' = nil
                 ELSE currentObject' = Min(above)]_vars

\* The file holds nothing the sweeper would remove under bound b.
Clean(c, b) ==
    /\ \A x \in EventsOf(c) : x[3] >= b
    /\ \A y \in ObjectsOf(c) : c.shards[y[1]][y[2]] # {}

TheBound == CHOOSE b \in boundSet : TRUE

\* C5: with the stored events and the bound fixed, repeated batches reach a
\* file with no expired event and no empty object bucket, and from a clean
\* file on no batch changes the file or the storage statistics: each ends
\* with the sentinel and is rolled back.
C5_EventuallyClean ==
    /\ <>[]Clean(disk, TheBound)
    /\ [][Clean(disk, TheBound) =>
             /\ disk' = disk
             /\ dbStats' = dbStats
             /\ \A t \in Threads : EndOfBatchStep(t) => err'[t] = NoDeletes]_vars

\* C5 witness: a file that held expired events is clean after batches that
\* committed.
C5_Witness ==
    /\ Clean(disk, TheBound)
    /\ dbStats.Write > 1
    /\ EventsOf(disk) # {}

\* The loop iteration of thread t is one that finds the shard exhausted.
RolloverStep(t) ==
    /\ InLoopStep(t)
    /\ swept'[t] = swept[t] + 1
    /\ NextObjectKey(DOMAIN tx.shards[currentShard], currentObject) = nil

\* C6: on an exhausted shard the sweeper goes to shard (currentShard + 1)
\* mod shardCount with currentObject nil, emits one expiration.rollover and
\* counts one swept object; currentShard stays in 0..shardCount-1 and changes
\* in no other way.
C6_Rollover ==
    [][/\ currentShard \in 0..(shardCount - 1)
       /\ currentShard' \in 0..(shardCount' - 1)
       /\ \A t \in Threads :
             RolloverStep(t) =>
                 /\ currentShard' = (currentShard + 1) % shardCount
                 /\ currentObject' = nil
                 /\ statsdOut'[t] = Append(statsdOut[t], Metric("expiration.rollover", 1))
                 /\ swept'[t] = swept[t] + 1
       /\ currentShard' # currentShard =>
             /\ \E t \in Threads : RolloverStep(t)
             /\ currentShard' = (currentShard + 1) % shardCount]_vars

\* C6 witness: one batch went from shard 0 to shard 1 and back to shard 0.
C6_Witness ==
    \E t \in Threads :
        /\ pc[t] = "sweep_loop"
        /\ currentShard = 0
        /\ statsdOut[t] = <<Metric("expiration.rollover", 1), Metric("expiration.rollover", 1)>>

\* C7: every batch on an open table ends, with 1 <= swept <= SweepBatchSize,
\* and it ends when swept or the deleted events have reached SweepBatchSize
\* and not before.
C7_BatchTerminates ==
    /\ [](\A t \in Threads :
             /\ ret[t].op = "sweep" =>
                   /\ 1 <= ret[t].swept
                   /\ ret[t].swept <= SweepBatchSize
                   /\ ret[t].swept = SweepBatchSize \/ ret[t].events >= SweepBatchSize
             /\ pc[t] = "sweep_loop" => swept[t] <= SweepBatchSize)
    /\ [][\A t \in Threads :
             /\ InLoopStep(t) =>
                   swept[t] < SweepBatchSize /\ events[t] < SweepBatchSize
             /\ EndOfBatchStep(t) =>
                   swept[t] = SweepBatchSize \/ events[t] >= SweepBatchSize]_vars
    /\ (db = "open" /\ \E t \in Threads : pc[t] = "sweep")
          ~> (\A t \in Threads : pc[t] = "idle")

\* C7 witness: a batch over empty shards has returned with swept at the
\* batch size.
C7_Witness ==
    \E t \in Threads :
        /\ ret[t].op = "sweep"
        /\ ret[t].swept = SweepBatchSize
        /\ ObjectsOf(disk) = {}

\* C8: after a visit the object holds an event, none of them expired, or its
\* bucket is gone; it is gone exactly when none of its events was at or above
\* the bound; and the objects count of the batch is the number of object
\* buckets the batch removed.
C8_ObjectDeletedWhenEmpty ==
    [][\A t \in Threads :
          /\ (InLoopStep(t) /\ currentObject' # nil) =>
                LET sb == tx.shards[currentShard]
                    sbAfter == tx'.shards[currentShard]
                    k == currentObject'
                IN /\ k \in DOMAIN sb
                   /\ k \notin DOMAIN sbAfter <=> {e \in sb[k] : e >= bound[t]} = {}
                   /\ k \in DOMAIN sbAfter =>
                         /\ sbAfter[k] # {}
                         /\ \A e \in sbAfter[k] : e >= bound[t]
          /\ InLoopStep(t) =>
                objects'[t] = Cardinality(ObjectsOf(disk) \ ObjectsOf(tx'))
          /\ EndOfBatchStep(t) =>
                objects[t] = Cardinality(ObjectsOf(disk) \ ObjectsOf(disk'))]_vars

\* C8 witness: a batch has removed the bucket of the object it stands on
\* after it kept an object from which it had deleted events.
C8_Witness ==
    \E t \in Threads :
        /\ pc[t] = "sweep_loop"
        /\ objects[t] = 1
        /\ currentObject \notin DOMAIN tx.shards[currentShard]
        /\ \E k \in DOMAIN tx.shards[currentShard] :
              k < currentObject /\ disk.shards[currentShard][k] # tx.shards[currentShard][k]

\* Thread t is inside the body of a call that took the table lock.
InBody(t) == pc[t] \notin {"idle", "crashed"}

\* C9: SweepNextBatch, Create, Open and Close exclude each other: at most one
\* thread is inside a body, it holds the table lock and only it holds the
\* writer lock; the sweeper state changes only in steps of the sweep that
\* holds the lock.
C9_MutualExclusion ==
    [][/\ \A t1, t2 \in Threads : (InBody(t1)' /\ InBody(t2)') => t1 = t2
       /\ \A t \in Threads : InBody(t)' => mutex' = t /\ rwlock' \in {0, t}
       /\ <<currentShard, currentObject>>' # <<currentShard, currentObject>> =>
             /\ mutex # 0
             /\ mutex' = mutex
             /\ op[mutex] = "sweep"
             /\ pc[mutex] = "sweep_loop"]_vars

\* C9 witness: a thread sweeps the table another thread created, and has
\* deleted events.
C9_Witness ==
    \E t1, t2 \in Threads :
        /\ t1 # t2
        /\ pc[t1] = "sweep_loop"
        /\ events[t1] > 0
        /\ ret[t2].op = "create_put"
        /\ mutex = t1

\* Number of storage statistics deltas in a metrics log.
DeltaCount(log) ==
    Cardinality({i \in DOMAIN log : log[i].name = "bolt.txn.write.count"})

\* C10: a call of Update emits one delta of the storage statistics, after its
\* transaction has ended and whether it was committed or rolled back; it
\* returns the error of the closure, or of the commit, as it is; and after a
\* rollback the file is what it was.
C10_UpdateEmitsOnce ==
    [][\A t \in Threads :
          op[t] = "update" =>
             /\ pc[t] = "return" => DeltaCount(statsdOut[t]) = 1
             /\ pc[t] \in {"update_fn", "update_end", "emit"} =>
                   DeltaCount(statsdOut[t]) = 0
             /\ statsdOut'[t] # statsdOut[t] => rwlock # t \/ pc[t] = "return"
             /\ (pc[t] = "update_end" /\ pc'[t] # "update_end") =>
                   /\ err[t] # NoError => err'[t] = err[t]
                   /\ err[t] = NoError => err'[t] \in {NoError, ErrCommit}
                   /\ err'[t] # NoError => disk' = disk
                   /\ err'[t] = NoError => disk' = tx
             /\ (pc[t] = "return" /\ pc'[t] = "idle") => ret'[t].err = err[t]]_vars

\* C10 witness: an Update whose closure removed an object and returned an
\* error has emitted its delta and is about to return that error.
C10_Witness ==
    \E t \in Threads :
        /\ op[t] = "update"
        /\ pc[t] = "return"
        /\ err[t] = ErrClosure
        /\ DeltaCount(statsdOut[t]) = 1

\* The values a metrics log holds under a name, in order.
ValuesOf(log, name) ==
    LET idx == {i \in DOMAIN log : log[i].name = name}
    IN [i \in idx |-> log[i].value]

\* Number of times a name occurs in a metrics log.
Occurrences(log, name) == Cardinality(DOMAIN ValuesOf(log, name))

\* The transaction of the sweep of thread t has ended and the call has not
\* returned.
AfterBatch(t) == op[t] = "sweep" /\ pc[t] \in {"emit", "emit_store", "return"}

\* C11 (as claimed): a batch emits expiration.sweep, expiration.events and
\* expiration.objects only when it deleted an event or an object; a batch
\* that aborts because nothing was deleted emits none of the three.
C11_CountersOnlyOnCommit ==
    \A t \in Threads :
        (AfterBatch(t) /\ events[t] = 0 /\ objects[t] = 0) =>
            /\ Occurrences(statsdOut[t], "expiration.sweep") = 0
            /\ Occurrences(statsdOut[t], "expiration.events") = 0
            /\ Occurrences(statsdOut[t], "expiration.objects") = 0

\* C11 (amended): every batch whose transaction ran emits expiration.sweep
\* once, with value 1, when its loop has ended, also a batch that aborts
\* because nothing was deleted; expiration.events is emitted, once and with
\* the number of deleted events, exactly when the batch deleted an event, and
\* expiration.objects likewise for deleted objects; so a batch that aborts
\* because nothing was deleted emits neither of these two.  The counters go
\* out before the commit is attempted.
C11_SweepCounters ==
    \A t \in Threads :
        /\ pc[t] = "sweep_loop" =>
              /\ Occurrences(statsdOut[t], "expiration.sweep") = 0
              /\ Occurrences(statsdOut[t], "expiration.events") = 0
              /\ Occurrences(statsdOut[t], "expiration.objects") = 0
        /\ AfterBatch(t) =>
              /\ ValuesOf(statsdOut[t], "expiration.sweep")
                    = [i \in DOMAIN ValuesOf(statsdOut[t], "expiration.sweep") |-> 1]
              /\ Occurrences(statsdOut[t], "expiration.sweep") = 1
              /\ Occurrences(statsdOut[t], "expiration.events")
                    = (IF events[t] > 0 THEN 1 ELSE 0)
              /\ Occurrences(statsdOut[t], "expiration.objects")
                    = (IF objects[t] > 0 THEN 1 ELSE 0)
              /\ \A i \in DOMAIN statsdOut[t] :
                    /\ statsdOut[t][i].name = "expiration.events" =>
                          statsdOut[t][i].value = events[t]
                    /\ statsdOut[t][i].name = "expiration.objects" =>
                          statsdOut[t][i].value = objects[t]
              /\ err[t] = NoDeletes <=> (events[t] = 0 /\ objects[t] = 0)

\* C11 witness: a batch that visited an object and deleted nothing was
\* rolled back and has emitted expiration.sweep.
C11_Witness ==
    \E t \in Threads :
        /\ AfterBatch(t)
        /\ err[t] = NoDeletes
        /\ currentObject # nil
        /\ Occurrences(statsdOut[t], "expiration.sweep") = 1

\* The call of thread t returns in this step.
Returns(t) == pc[t] = "return" /\ pc'[t] = "idle"

\* C12 (as claimed): Create at a fresh path leaves the meta bucket with the
\* meta document and the shard buckets 0..n-1; every Open of an existing
\* table that returns nil, after a Close or on a new handle, leaves an open
\* table whose shardCount is the persisted one, whatever it was in memory.
C12_SchemaPersists ==
    [][\A t \in Threads :
          /\ (pc[t] = "create" /\ disk = NoFile /\ err'[t] = NoError
                  /\ pc'[t] # "create" /\ shardCount' >= 1) =>
                /\ disk'.metaBucket
                /\ DOMAIN disk'.shards = 0..(shardCount' - 1)
          /\ (op[t] = "create" /\ op'[t] = "create_put" /\ err'[t] = NoError) =>
                /\ disk'.meta = <<marshal(shardCount)>>
                /\ disk'.metaBucket
                /\ disk'.shards = disk.shards
          /\ (Returns(t) /\ op[t] = "open" /\ err[t] = NoError
                  /\ Len(disk.meta) > 0) =>
                /\ db' = "open"
                /\ shardCount' = unmarshal(disk.meta[1])]_vars

\* C13 (as claimed): after Close the table is not reported as opened, and an
\* Open or Create that returns nil leaves the table on an open database.
C13_ReopenAfterClose ==
    [][\A t \in Threads :
          /\ (pc[t] = "close" /\ pc'[t] = "idle") => db' = "nil"
          /\ (Returns(t) /\ op[t] \in {"open", "create_put"} /\ err[t] = NoError) =>
                db' = "open"]_vars

\* A property without its back-reference.
Exported(q) ==
    [ID |-> q.ID, Name |-> q.Name, DataType |-> q.DataType,
     Transient |-> q.Transient]

\* The properties an index holds.
Held(index) == {index[k] : k \in DOMAIN index}

\* C14: after unmarshal of what marshal returned, the decoding table holds
\* the four scalar fields and the property set of the encoding table; its
\* index by name and its index by ID hold the same properties, each under its
\* own name and its own ID, and each refers back to the decoding table.
C14_MetaRoundTrip ==
    decoded.done =>
        /\ decoded.table.name = schema.name
        /\ decoded.table.shardCount = schema.shardCount
        /\ decoded.table.maxPermanentID = schema.maxPermanentID
        /\ decoded.table.maxTransientID = schema.maxTransientID
        /\ {Exported(q) : q \in Held(decoded.table.properties)}
              = {Exported(q) : q \in Held(schema.properties)}
        /\ Held(decoded.table.properties) = Held(decoded.table.propertiesByID)
        /\ \A k \in DOMAIN decoded.table.properties :
              decoded.table.properties[k].Name = k
        /\ \A i \in DOMAIN decoded.table.propertiesByID :
              decoded.table.propertiesByID[i].ID = i
        /\ \A q \in Held(decoded.table.properties) : q.table = "decoder"

\* C14 witness: a table that held a schema of its own has decoded a document
\* with two properties, written in the order b, a.
C14_Witness ==
    /\ decoded.done
    /\ Len(metaData[1].properties.items) = 2
    /\ metaData[1].properties.items[1].name = "b"
    /\ Cardinality(Held(decoded.table.propertiesByID)) = 2
    /\ decoded.table.maxPermanentID # decoded.table.maxTransientID

\* C15 (as claimed): unmarshal of malformed bytes, a slice shorter than the
\* timestamp prefix included, ends by returning an error.
C15_MalformedReturnsError ==
    (/\ rawEvent.outcome # "none"
     /\ \/ Len(eventBytes) < TimestampSize
        \/ DecodeFails(SubSeq(eventBytes, TimestampSize + 1, Len(eventBytes))))
        => rawEvent.outcome = "error"

\* C16: Diff returns, for every field, the difference of the field of s and
\* the field of other as the integer type holds it, so that adding the field
\* of other gives the field of s back; s.Diff(s) is all zeros; and the call
\* changes neither s nor other.
C16_DiffComponentwise ==
    /\ [](statDiff # <<>> =>
             /\ DOMAIN statDiff[1] = StatFields
             /\ \A f \in StatFields :
                   /\ statDiff[1][f] = WrapInt(statS[f] - statOther[f])
                   /\ WrapInt(statDiff[1][f] + statOther[f]) = statS[f]
             /\ statS = statOther => \A f \in StatFields : statDiff[1][f] = 0)
    /\ [][statS' = statS /\ statOther' = statOther]_vars

\* C16 witness: Diff has returned for Stats with a field whose difference
\* overflows, and for which s and other differ in another field.
C16_Witness ==
    /\ statDiff # <<>>
    /\ \E f \in StatFields :
          /\ statS[f] = MinInt
          /\ statOther[f] = MaxInt
          /\ statDiff[1][f] = 1
    /\ \E g \in StatFields :
          /\ statS[g] = 0
          /\ statOther[g] = -1
          /\ statDiff[1][g] = 1

\* C17 (as claimed): each gauge ddEmitStats emits carries the statistic of
\* the fresh snapshot that its name denotes.
C17_GaugesMatchNames ==
    [][\A t \in Threads :
          (pc[t] = "emit_store" /\ pc'[t] = "return") =>
              \A i \in DOMAIN statsdOut'[t] :
                  LET m == statsdOut'[t][i]
                  IN /\ m.name = "bolt.pages.free" => m.value = fresh[t].FreePageN
                     /\ m.name = "bolt.pages.pending" => m.value = fresh[t].PendingPageN
                     /\ m.name = "bolt.pages.free.alloc" => m.value = fresh[t].FreeAlloc
                     /\ m.name = "bolt.pages.freelist.inuse" =>
                           m.value = fresh[t].FreelistInuse
                     /\ m.name = "bolt.txn.open" => m.value = fresh[t].OpenTxN]_vars

\* C18 (as claimed): when Open or Create returns an error the table is not
\* open: opened() is false, so that a later Open initializes again.
C18_ErrorLeavesNotOpen ==
    [][\A t \in Threads :
          (Returns(t) /\ op[t] \in {"open", "create", "create_put"}
              /\ err[t] # NoError) => db' = "nil"]_vars

\* C19 (as claimed): with Update called from several threads, when no call
\* is in progress the deltas the sink has received add up to the difference
\* between the latest statistics and the initial ones.
C19_DeltasAddUp ==
    (\A t \in Threads : pc[t] = "idle") =>
        statsdTotal = dbStats.Write - ZeroStats.Write

\* C20 (as claimed): the events and objects counts a batch returns are the
\* numbers of events and of object buckets it removed from the file; when
\* the commit fails the file is unchanged and the counts are zero.
C20_CountsAreDurable ==
    [][\A t \in Threads :
          /\ EndOfBatchStep(t) =>
                /\ events[t] = Cardinality(EventsOf(disk) \ EventsOf(disk'))
                /\ objects[t] = Cardinality(ObjectsOf(disk) \ ObjectsOf(disk'))
          /\ (Returns(t) /\ op[t] = "sweep") =>
                /\ ret'[t].events = events[t]
                /\ ret'[t].objects = objects[t]]_vars

\* C21: SweepNextBatch on a table that has never been opened (t.db is nil)
\* returns (0, 0, 0), starts no transaction, emits no expiration counter and
\* leaves currentShard and currentObject unchanged; the file and the
\* handle are left as they were.
C21_SweepNeverOpened ==
    [][\A t \in Threads :
          (pc[t] = "sweep" /\ db = "nil") =>
              /\ pc'[t] = "idle"
              /\ ret'[t].op = "sweep"
              /\ ret'[t].swept = 0 /\ ret'[t].events = 0 /\ ret'[t].objects = 0
              /\ tx' = tx /\ rwlock' = rwlock /\ rwlock = 0
              /\ statsdOut[t] = <<>> /\ statsdOut'[t] = <<>>
              /\ currentShard' = currentShard
              /\ currentObject' = currentObject
              /\ disk' = disk /\ dbStats' = dbStats /\ db' = db]_vars

\* C21 witness: a sweep has returned on a handle that was never opened
\* while the file at its path holds an object with events.
C21_Witness ==
    \E t \in Threads :
        /\ db = "nil"
        /\ pc[t] = "idle"
        /\ ret[t].op = "sweep"
        /\ EventsOf(disk) # {}

====
